---------------------------- MODULE Spec2Model ----------------------------
(***************************************************************************)
(* A model of proto/src/client.rs: the Transaction channel (request,       *)
(* request_single, request_multi over one mpsc sender and one inbound      *)
(* gRPC stream) and the background producer of Client::bulk_insert.        *)
(***************************************************************************)
EXTENDS Integers, Sequences, FiniteSets, TLC

(***************************************************************************)
(* Bounds of the model.                                                    *)
(***************************************************************************)
\* calls made on the Transaction channel in one behaviour
MaxCalls == 3
\* messages the remote peer sends on the inbound stream in one behaviour
MaxInbound == 4
\* items given to bulk_insert beyond the capacity of its queue
ExtraItems == 2

(***************************************************************************)
(* Program constants.                                                      *)
(***************************************************************************)
CHANNEL_CAPACITY == 100

(***************************************************************************)
(* u32.  TLC's integers are 32-bit signed, so a u32 is kept as two 16-bit  *)
(* limbs <<hi, lo>> standing for hi * 2^16 + lo; the arithmetic below is   *)
(* exact 32-bit unsigned arithmetic.                                       *)
(***************************************************************************)
Limb == 2 ^ 16

\* the u32 of a small natural number (n < 2^31)
U32(n) == << n \div Limb, n % Limb >>

U32_MAX == << Limb - 1, Limb - 1 >>

\* x + 1 with the carry propagated, wrapping to 0 past U32_MAX
WrappingInc(x) ==
    IF x[2] < Limb - 1 THEN << x[1], x[2] + 1 >>
    ELSE IF x[1] < Limb - 1 THEN << x[1] + 1, 0 >>
    ELSE << 0, 0 >>

\* x - 1, wrapping to U32_MAX below 0
WrappingDec(x) ==
    IF x[2] > 0 THEN << x[1], x[2] - 1 >>
    ELSE IF x[1] > 0 THEN << x[1] - 1, Limb - 1 >>
    ELSE << Limb - 1, Limb - 1 >>

\* x < y as unsigned numbers
U32Less(x, y) == x[1] < y[1] \/ (x[1] = y[1] /\ x[2] < y[2])

\* what `+= 1` on a u32 does at U32_MAX: it wraps where overflow checks are
\* off (release profile) and panics where they are on (debug profile)
OverflowModes == {"wrap", "panic"}

(***************************************************************************)
(* ClientError and Result.                                                 *)
(***************************************************************************)
UnexpectedResponseId(expected, actual) ==
    [kind |-> "UnexpectedResponseId", expected |-> expected, actual |-> actual]

UnexpectedEmptyResponse(request_id) ==
    [kind |-> "UnexpectedEmptyResponse", request_id |-> request_id]

Grpc == [kind |-> "Grpc"]

Conversion == [kind |-> "Conversion"]

ChannelClosed == [kind |-> "ChannelClosed"]

Ok(v) == [tag |-> "Ok", value |-> v]

Err(e) == [tag |-> "Err", error |-> e]

\* impl From<Status> for ClientError
FromStatus == Grpc

\* From<ConversionError> for ClientError
FromConversionError == Conversion

\* mutant of FromSendError: the send failure reported as a gRPC error
FromSendError_grpc == Grpc

\* impl From<mpsc::error::SendError<T>> for ClientError
FromSendError == ChannelClosed

\* mutant of check_request_id: only an identifier below the expected one is
\* refused
check_request_id_accepts_later(expected, actual) ==
    IF U32Less(actual, expected)
    THEN Err(UnexpectedResponseId(expected, actual))
    ELSE Ok("unit")

\* mutant of check_request_id: only an identifier above the expected one is
\* refused
check_request_id_accepts_earlier(expected, actual) ==
    IF U32Less(expected, actual)
    THEN Err(UnexpectedResponseId(expected, actual))
    ELSE Ok("unit")

check_request_id(expected, actual) ==
    IF expected # actual
    THEN Err(UnexpectedResponseId(expected, actual))
    ELSE Ok("unit")

(***************************************************************************)
(* Wire messages.  A TransactionResponse is {request_id, response}; its    *)
(* response is absent (None), the Empty variant, or another variant.       *)
(***************************************************************************)
\* the n-th response of the peer, when it carries a value, carries value n
Value(n) == << "Value", n >>

\* response: None
None == << "None" >>

\* response: Some(TransactionResponseVariant::Empty(_))
Empty == << "Empty" >>

Payloads(n) == {None, Empty, Value(n)}

TransactionRequest(request_id, request) ==
    [request_id |-> request_id, request |-> request]

TransactionResponse(request_id, response) ==
    [request_id |-> request_id, response |-> response]

\* the request variants: one answered by a single value, one by a sequence
SingleVariant == "CreateVertex"

MultiVariant == "GetVertices"

(***************************************************************************)
(* tokio::sync::mpsc::Sender::send on a bounded channel: an error once the *)
(* receiving half is gone, otherwise it completes when there is room and   *)
(* stays pending while the queue is full.                                  *)
(***************************************************************************)
\* mutant of mpsc_send: a queue without a capacity
mpsc_send_unbounded(len, rx_gone) ==
    IF rx_gone THEN "SendError" ELSE "Ok"

\* mutant of mpsc_send: the sender does not learn that the receiving half is
\* gone
mpsc_send_unaware(len, rx_gone) ==
    IF len < CHANNEL_CAPACITY THEN "Ok" ELSE "Pending"

mpsc_send(len, rx_gone) ==
    IF rx_gone THEN "SendError"
    ELSE IF len < CHANNEL_CAPACITY THEN "Ok"
    ELSE "Pending"

VARIABLES
    \* Transaction
    next_request_id,  \* Transaction::next_request_id
    outbound,         \* every TransactionRequest the sender accepted, in order
    taken,            \* how many of them the transport took from the queue
    sender_rx_gone,   \* the receiving half of the sender's queue was dropped
    inbound,          \* number of responses that arrived and were not read
    in_state,         \* "open", "ended" (peer closed), "failed" (a Status)
    peer_sent,        \* number of responses the peer has sent
    read,             \* number of responses message() has yielded
    pc,               \* "idle", "send", "recv", "panicked"
    cur,              \* the call in flight
    last,             \* the call that returned last: what it read and returned
    results,          \* the outcome of every call that returned, in order
    first_id,         \* identifier of the first request of this behaviour
    \* bulk_insert
    items,            \* the Vec collected from the caller's iterator
    bi_pc,            \* "none", "loop", "returned", "finished"
    bi_next,          \* index of the next item of the for loop
    bi_queue,         \* content of the bounded queue
    bi_rx_gone,       \* the ReceiverStream was dropped
    bi_received,      \* what the stream consumer took, in order
    bi_eos,           \* the stream consumer was told the stream has ended
    bi_ack,           \* how the peer answered the bulk_insert call
    bi_result,        \* what bulk_insert returned to its caller
    \* Client::transaction
    chans,            \* the Transactions opened from one Client, in order
    \* observation
    unread_at_issue,  \* responses waiting unread when the latest request was
                      \* issued (recorded by CallObserved only)
    \* the domain operations (create_vertex, get_vertices)
    domain_result,    \* what the operation that returned last returned
    domain_results    \* the kind of what each operation returned, in order

txn_vars == << next_request_id, outbound, taken, sender_rx_gone, inbound,
               in_state, peer_sent, read, pc, cur, last, results, first_id >>

bulk_vars == << items, bi_pc, bi_next, bi_queue, bi_rx_gone, bi_received,
                bi_eos, bi_ack, bi_result >>

\* bulk_insert has not returned
Pending == [tag |-> "Pending"]

client_vars == << chans >>

obs_vars == << unread_at_issue, domain_result, domain_results >>

vars == << txn_vars, bulk_vars, client_vars, obs_vars >>

NoCall ==
    [request |-> "none", request_id |-> U32(0), values |-> << >>, got |-> << >>,
     polled |-> "none", read_before |-> 0]

\* the locals of a call that has just taken its identifier, with the
\* position of the inbound stream at that moment
NewCall(variant, request_id) ==
    [request |-> variant, request_id |-> request_id, values |-> << >>,
     got |-> << >>, polled |-> "none", read_before |-> read]

\* a call that returned: what it was, what it read, what it returned
Returned(call, sent, result) ==
    [request |-> call.request, request_id |-> call.request_id, sent |-> sent,
     got |-> call.got, polled |-> call.polled, read_before |-> call.read_before,
     result |-> result]

\* the entry of `results` for a call that returned
Outcome(ret) ==
    [request |-> ret.request, request_id |-> ret.request_id,
     outcome |-> IF ret.result.tag = "Ok" THEN "Ok" ELSE ret.result.error.kind]

\* Transaction::new: the counter starts at 0.  `start` is the number of
\* requests the channel has already issued (all answered) when the
\* behaviour begins; 0 is the channel right after construction.
TransactionAt(start) ==
    /\ next_request_id = start
    /\ first_id = start
    /\ outbound = << >>
    /\ taken = 0
    /\ sender_rx_gone = FALSE
    /\ inbound = 0
    /\ in_state = "open"
    /\ peer_sent = 0
    /\ read = 0
    /\ pc = "idle"
    /\ cur = NoCall
    /\ last = NoCall
    /\ results = << >>

NoBulk ==
    /\ items = << >>
    /\ bi_pc = "none"
    /\ bi_next = 1
    /\ bi_queue = << >>
    /\ bi_rx_gone = FALSE
    /\ bi_received = << >>
    /\ bi_eos = FALSE
    /\ bi_ack = "none"
    /\ bi_result = Pending

\* no Transaction opened through Client::transaction
NoChannels ==
    /\ chans = << >>
    /\ unread_at_issue = 0
    /\ domain_result = Pending
    /\ domain_results = << >>

Init == TransactionAt(U32(0)) /\ NoBulk /\ NoChannels

\* the call in flight returns `result`
Return(call, sent, result) ==
    /\ last' = Returned(call, sent, result)
    /\ results' = Append(results, Outcome(Returned(call, sent, result)))
    /\ cur' = NoCall
    /\ pc' = "idle"

(***************************************************************************)
(* Transaction::request, up to the send: take the identifier, add one.     *)
(***************************************************************************)
\* mutant of NextRequestId: the counter is not advanced
NextRequestId_stuck(id) == id

NextRequestId(id) == WrappingInc(id)

request(variant) ==
    /\ pc = "idle"
    /\ Len(results) < MaxCalls
    /\ \E mode \in IF next_request_id = U32_MAX THEN OverflowModes ELSE {"none"} :
         IF mode = "panic"
         THEN /\ pc' = "panicked"
              /\ UNCHANGED << next_request_id, cur >>
         ELSE /\ pc' = "send"
              /\ next_request_id' = NextRequestId(next_request_id)
              /\ cur' = NewCall(variant, next_request_id)
    /\ UNCHANGED << outbound, taken, sender_rx_gone, inbound, in_state,
                    peer_sent, read, last, results, first_id, bulk_vars,
                    client_vars >>

(***************************************************************************)
(* Transaction::request, the send and its `?`.                             *)
(***************************************************************************)
\* mutant of send: a request the queue accepted is sent once more
send_twice ==
    /\ pc = "send"
    /\ LET r == mpsc_send(Len(outbound) - taken, sender_rx_gone) IN
         /\ r # "Pending"
         /\ IF r = "SendError"
            THEN /\ Return(cur, FALSE, Err(FromSendError))
                 /\ UNCHANGED outbound
            ELSE /\ outbound' = outbound
                                  \o << TransactionRequest(cur.request_id, cur.request),
                                        TransactionRequest(cur.request_id, cur.request) >>
                 /\ pc' = "recv"
                 /\ UNCHANGED << cur, last, results >>
    /\ UNCHANGED << next_request_id, taken, sender_rx_gone, inbound, in_state,
                    peer_sent, read, first_id, bulk_vars, client_vars, obs_vars >>

send ==
    /\ pc = "send"
    /\ LET r == mpsc_send(Len(outbound) - taken, sender_rx_gone) IN
         /\ r # "Pending"
         /\ IF r = "SendError"
            THEN /\ Return(cur, FALSE, Err(FromSendError))
                 /\ UNCHANGED outbound
            ELSE /\ outbound' = Append(outbound,
                                       TransactionRequest(cur.request_id, cur.request))
                 /\ pc' = "recv"
                 /\ UNCHANGED << cur, last, results >>
    /\ UNCHANGED << next_request_id, taken, sender_rx_gone, inbound, in_state,
                    peer_sent, read, first_id, bulk_vars, client_vars, obs_vars >>

(***************************************************************************)
(* Streaming::message(): the next response, None at the end of the stream, *)
(* or the Status the stream failed with.  `inbound` counts the responses   *)
(* that arrived and were not read; what a response holds is an input of    *)
(* the read that yields it.                                                *)
(***************************************************************************)
\* mutant of MessageReady: message() gives up waiting
MessageReady_always == TRUE

MessageReady == inbound > 0 \/ in_state # "open"

\* the identifiers a response read by `call` may carry: the call's own, the
\* one before it (a reply to the previous request) and the one after it
PeerIds(call) ==
    {WrappingDec(call.request_id), call.request_id, WrappingInc(call.request_id)}

\* what message() may return to `call`
Messages(call) ==
    IF inbound > 0
    THEN { [kind |-> "Some", msg |-> TransactionResponse(id, p)] :
             id \in PeerIds(call), p \in Payloads(read + 1) }
    ELSE IF in_state = "failed" THEN { [kind |-> "Status"] }
    ELSE { [kind |-> "None"] }

\* the stream after message() returned: a response read is gone from it; a
\* failed stream yields its Status once and None from then on
AfterMessage ==
    /\ inbound' = IF inbound > 0 THEN inbound - 1 ELSE inbound
    /\ read' = IF inbound > 0 THEN read + 1 ELSE read
    /\ in_state' = IF inbound = 0 /\ in_state = "failed" THEN "ended" ELSE in_state

\* mutant of HasResponse: the arm matches a response whatever its payload
HasResponse_any(m) == m.kind = "Some"

\* the first match arm: Some(TransactionResponse {request_id, response: Some(_)})
HasResponse(m) == m.kind = "Some" /\ m.msg.response # None

\* what the call has read so far, with the message just polled
Got(call, m) ==
    [call EXCEPT !.got = IF m.kind = "Some" THEN Append(call.got, m.msg) ELSE call.got,
                 !.polled = m.kind]

\* mutant of SingleResult: the Empty payload is taken for a missing reply
SingleResult_empty_missing(expected_request_id, m) ==
    IF m.kind = "Status" THEN Err(FromStatus)
    ELSE IF HasResponse(m) /\ m.msg.response # Empty
    THEN LET c == check_request_id(expected_request_id, m.msg.request_id) IN
           IF c.tag = "Err" THEN c ELSE Ok(m.msg.response)
    ELSE Err(UnexpectedEmptyResponse(expected_request_id))

\* the body of request_single after the request was sent
SingleResult(expected_request_id, m) ==
    IF m.kind = "Status" THEN Err(FromStatus)
    ELSE IF HasResponse(m)
    THEN LET c == check_request_id(expected_request_id, m.msg.request_id) IN
           IF c.tag = "Err" THEN c ELSE Ok(m.msg.response)
    ELSE Err(UnexpectedEmptyResponse(expected_request_id))

request_single ==
    /\ pc = "recv"
    /\ cur.request = SingleVariant
    /\ MessageReady
    /\ \E m \in Messages(cur) :
         Return(Got(cur, m), TRUE, SingleResult(cur.request_id, m))
    /\ AfterMessage
    /\ UNCHANGED << next_request_id, outbound, taken, sender_rx_gone, peer_sent,
                    first_id, bulk_vars, client_vars, obs_vars >>

\* mutant of IsEmptyVariant: every payload is taken for the terminator
IsEmptyVariant_any(response) == TRUE

IsEmptyVariant(response) == response = Empty

\* mutant of Push: the value is put in front
Push_front(values, response) == << response >> \o values

Push(values, response) == Append(values, response)

\* one iteration of the loop of request_multi: either the call returns
\* (done) with a result, or the loop goes on with the new values
MultiStep(expected_request_id, values, m) ==
    IF m.kind = "Status" THEN [done |-> TRUE, result |-> Err(FromStatus)]
    ELSE IF HasResponse(m)
    THEN LET c == check_request_id(expected_request_id, m.msg.request_id) IN
           IF c.tag = "Err" THEN [done |-> TRUE, result |-> c]
           ELSE IF IsEmptyVariant(m.msg.response)
           THEN [done |-> TRUE, result |-> Ok(values)]
           ELSE [done |-> FALSE, values |-> Push(values, m.msg.response)]
    ELSE [done |-> TRUE, result |-> Err(UnexpectedEmptyResponse(expected_request_id))]

request_multi ==
    /\ pc = "recv"
    /\ cur.request = MultiVariant
    /\ MessageReady
    /\ \E m \in Messages(cur) :
         LET s == MultiStep(cur.request_id, cur.values, m) IN
           IF s.done
           THEN Return(Got(cur, m), TRUE, s.result)
           ELSE /\ cur' = [Got(cur, m) EXCEPT !.values = s.values]
                /\ UNCHANGED << last, results, pc >>
    /\ AfterMessage
    /\ UNCHANGED << next_request_id, outbound, taken, sender_rx_gone, peer_sent,
                    first_id, bulk_vars, client_vars, obs_vars >>

(***************************************************************************)
(* The environment of a Transaction: the remote peer writing the inbound   *)
(* stream, and the transport reading (or dropping) the outbound queue.     *)
(***************************************************************************)
PeerSend ==
    /\ in_state = "open"
    /\ peer_sent < MaxInbound
    /\ inbound' = inbound + 1
    /\ peer_sent' = peer_sent + 1
    /\ UNCHANGED << next_request_id, outbound, taken, sender_rx_gone, in_state,
                    read, pc, cur, last, results, first_id, bulk_vars, client_vars, obs_vars >>

PeerEnd ==
    /\ in_state = "open"
    /\ \E s \in {"ended", "failed"} : in_state' = s
    /\ UNCHANGED << next_request_id, outbound, taken, sender_rx_gone, inbound,
                    peer_sent, read, pc, cur, last, results, first_id, bulk_vars, client_vars, obs_vars >>

TransportTake ==
    /\ ~sender_rx_gone
    /\ taken < Len(outbound)
    /\ taken' = taken + 1
    /\ UNCHANGED << next_request_id, outbound, sender_rx_gone, inbound, in_state,
                    peer_sent, read, pc, cur, last, results, first_id, bulk_vars, client_vars, obs_vars >>

TransportDrop ==
    /\ ~sender_rx_gone
    /\ sender_rx_gone' = TRUE
    /\ UNCHANGED << next_request_id, outbound, taken, inbound, in_state,
                    peer_sent, read, pc, cur, last, results, first_id, bulk_vars, client_vars, obs_vars >>

Call ==
    /\ \E variant \in {SingleVariant, MultiVariant} : request(variant)
    /\ UNCHANGED obs_vars

\* the same step, with the number of responses waiting unread at that moment
\* written down
CallObserved ==
    /\ \E variant \in {SingleVariant, MultiVariant} : request(variant)
    /\ unread_at_issue' = inbound
    /\ UNCHANGED << domain_result, domain_results >>

Next ==
    \/ Call
    \/ send
    \/ request_single
    \/ request_multi
    \/ PeerSend
    \/ PeerEnd
    \/ TransportTake
    \/ TransportDrop

Spec == Init /\ [][Next]_vars

\* the channel with the observing call; the transport only keeps or drops the
\* receiving half of the outbound queue, which MaxCalls requests never fill
NextObserved ==
    \/ CallObserved
    \/ send
    \/ request_single
    \/ request_multi
    \/ PeerSend
    \/ PeerEnd
    \/ TransportDrop

SpecObserved == Init /\ [][NextObserved]_vars

(***************************************************************************)
(* The domain operations: create_vertex for those built on request_single, *)
(* get_vertices for those built on request_multi.  Each converts what the  *)
(* call returned, after it returned.  try_into is given the payload alone; *)
(* which payloads it refuses is decided outside this file, so either       *)
(* outcome is possible for any payload.                                    *)
(***************************************************************************)
ConversionOutcomes == {"converted", "refused"}

\* response.try_into()
TryInto(response, c) ==
    IF c = "refused" THEN Err(FromConversionError) ELSE Ok(<< "domain", response >>)

\* Ok(self.request_single(request).await?.try_into()?)
ConvertSingle(result, c) ==
    IF result.tag = "Err" THEN result ELSE TryInto(result.value, c)

\* request_multi(request).await?.into_iter().map(try_into).collect(), then
\* Ok(result?)
ConvertMulti(result, cs) ==
    IF result.tag = "Err" THEN result
    ELSE LET conv == [i \in DOMAIN result.value |-> TryInto(result.value[i], cs[i])] IN
           IF \E i \in DOMAIN conv : conv[i].tag = "Err"
           THEN Err(FromConversionError)
           ELSE Ok([i \in DOMAIN conv |-> conv[i].value])

\* the operation returns `result` to its caller
DomainReturn(result) ==
    /\ domain_result' = result
    /\ domain_results' = Append(domain_results,
                                IF result.tag = "Ok" THEN "Ok" ELSE result.error.kind)

create_vertex ==
    /\ pc = "recv"
    /\ cur.request = SingleVariant
    /\ MessageReady
    /\ \E m \in Messages(cur), c \in ConversionOutcomes :
         LET result == SingleResult(cur.request_id, m) IN
           /\ Return(Got(cur, m), TRUE, result)
           /\ DomainReturn(ConvertSingle(result, c))
    /\ AfterMessage
    /\ UNCHANGED << next_request_id, outbound, taken, sender_rx_gone, peer_sent,
                    first_id, bulk_vars, client_vars, unread_at_issue >>

\* mutant of get_vertices: each value is converted as it arrives, and the
\* operation returns at the first one refused
get_vertices_eager ==
    /\ pc = "recv"
    /\ cur.request = MultiVariant
    /\ MessageReady
    /\ \E m \in Messages(cur), c \in ConversionOutcomes :
         LET s == MultiStep(cur.request_id, cur.values, m) IN
           IF s.done
           THEN /\ Return(Got(cur, m), TRUE, s.result)
                /\ DomainReturn(ConvertMulti(s.result,
                                             [i \in DOMAIN cur.values |-> "converted"]))
           ELSE IF c = "refused"
           THEN /\ Return(Got(cur, m), TRUE, Ok(s.values))
                /\ DomainReturn(Err(FromConversionError))
           ELSE /\ cur' = [Got(cur, m) EXCEPT !.values = s.values]
                /\ UNCHANGED << last, results, pc, domain_result, domain_results >>
    /\ AfterMessage
    /\ UNCHANGED << next_request_id, outbound, taken, sender_rx_gone, peer_sent,
                    first_id, bulk_vars, client_vars, unread_at_issue >>

get_vertices ==
    /\ pc = "recv"
    /\ cur.request = MultiVariant
    /\ MessageReady
    /\ \E m \in Messages(cur) :
         LET s == MultiStep(cur.request_id, cur.values, m) IN
           IF s.done
           THEN /\ Return(Got(cur, m), TRUE, s.result)
                /\ \E cs \in [DOMAIN cur.values -> ConversionOutcomes] :
                      DomainReturn(ConvertMulti(s.result, cs))
           ELSE /\ cur' = [Got(cur, m) EXCEPT !.values = s.values]
                /\ UNCHANGED << last, results, pc, domain_result, domain_results >>
    /\ AfterMessage
    /\ UNCHANGED << next_request_id, outbound, taken, sender_rx_gone, peer_sent,
                    first_id, bulk_vars, client_vars, unread_at_issue >>

\* the operations on a channel whose outbound queue stays open
NextDomain ==
    \/ Call
    \/ send
    \/ create_vertex
    \/ get_vertices
    \/ PeerSend
    \/ PeerEnd

SpecDomain == Init /\ [][NextDomain]_vars

\* a channel that has lived long: it has issued every identifier below
\* U32_MAX - 1, and all those calls have returned
InitLongLived == TransactionAt(WrappingDec(U32_MAX)) /\ NoBulk /\ NoChannels

SpecLongLived == InitLongLived /\ [][Next]_vars

(***************************************************************************)
(* Client::bulk_insert: the items are collected, a queue of                *)
(* CHANNEL_CAPACITY is created, and a spawned task sends the items into it *)
(* while the gRPC call reads the other end as its request stream.          *)
(***************************************************************************)
\* the caller's items: item i of the batch
Items(n) == [i \in 1 .. n |-> << "BulkInsertItem", i >>]

\* item.into(): the protobuf message of an item
IntoProto(item) == << "proto", item[1], item[2] >>

\* the batch sizes tried: empty, one item, a full queue, more than a queue
ItemCounts == {0, 1, CHANNEL_CAPACITY, CHANNEL_CAPACITY + ExtraItems}

\* the state when the task has been spawned
InitBulk ==
    /\ TransactionAt(U32(0))
    /\ \E n \in ItemCounts : items = Items(n)
    /\ bi_pc = "loop"
    /\ bi_next = 1
    /\ bi_queue = << >>
    /\ bi_rx_gone = FALSE
    /\ bi_received = << >>
    /\ bi_eos = FALSE
    /\ bi_ack = "none"
    /\ bi_result = Pending
    /\ NoChannels

\* one iteration of the task's for loop: send the next item, return if the
\* send failed
bulk_send ==
    /\ bi_pc = "loop"
    /\ bi_next <= Len(items)
    /\ LET r == mpsc_send(Len(bi_queue), bi_rx_gone) IN
         /\ r # "Pending"
         /\ IF r = "SendError"
            THEN /\ bi_pc' = "returned"
                 /\ UNCHANGED << bi_next, bi_queue >>
            ELSE /\ bi_queue' = Append(bi_queue, IntoProto(items[bi_next]))
                 /\ bi_next' = bi_next + 1
                 /\ UNCHANGED bi_pc
    /\ UNCHANGED << items, bi_rx_gone, bi_received, bi_eos, bi_ack, bi_result,
                    txn_vars, client_vars, obs_vars >>

\* the for loop is over: the task ends and drops the sender
bulk_end ==
    /\ bi_pc = "loop"
    /\ bi_next > Len(items)
    /\ bi_pc' = "finished"
    /\ UNCHANGED << items, bi_next, bi_queue, bi_rx_gone, bi_received, bi_eos,
                    bi_ack, bi_result, txn_vars, client_vars, obs_vars >>

\* ReceiverStream polled by the gRPC call: the next item of the queue
StreamTake ==
    /\ ~bi_rx_gone
    /\ bi_queue # << >>
    /\ bi_received' = Append(bi_received, Head(bi_queue))
    /\ bi_queue' = Tail(bi_queue)
    /\ UNCHANGED << items, bi_pc, bi_next, bi_rx_gone, bi_eos, bi_ack, bi_result,
                    txn_vars, client_vars, obs_vars >>

\* mutant of StreamEnd: an empty queue is taken for the end of the stream
StreamEnd_early ==
    /\ ~bi_rx_gone
    /\ ~bi_eos
    /\ bi_queue = << >>
    /\ bi_eos' = TRUE
    /\ UNCHANGED << items, bi_pc, bi_next, bi_queue, bi_rx_gone, bi_received,
                    bi_ack, bi_result, txn_vars, client_vars, obs_vars >>

\* ReceiverStream polled when the queue is empty and the sender dropped: the
\* stream ends
StreamEnd ==
    /\ ~bi_rx_gone
    /\ ~bi_eos
    /\ bi_queue = << >>
    /\ bi_pc \in {"returned", "finished"}
    /\ bi_eos' = TRUE
    /\ UNCHANGED << items, bi_pc, bi_next, bi_queue, bi_rx_gone, bi_received,
                    bi_ack, bi_result, txn_vars, client_vars, obs_vars >>

\* the gRPC call drops the ReceiverStream (the call is over, or failed):
\* the queue is closed and what it holds is dropped
StreamDrop ==
    /\ ~bi_rx_gone
    /\ bi_rx_gone' = TRUE
    /\ bi_queue' = << >>
    /\ UNCHANGED << items, bi_pc, bi_next, bi_received, bi_eos, bi_ack, bi_result,
                    txn_vars, client_vars, obs_vars >>

NextBulk ==
    \/ bulk_send
    \/ bulk_end
    \/ StreamTake
    \/ StreamEnd
    \/ StreamDrop

SpecBulk == InitBulk /\ [][NextBulk]_vars

\* the spawned task is scheduled whenever it can make a step
FairSpecBulk ==
    InitBulk /\ [][NextBulk]_vars /\ WF_vars(bulk_send) /\ WF_vars(bulk_end)

\* the gRPC call keeps its ReceiverStream and keeps polling it
NextBulkTaken ==
    \/ bulk_send
    \/ bulk_end
    \/ StreamTake
    \/ StreamEnd

\* the spawned task is scheduled whenever it can make a step, and the call
\* polls the stream whenever it has something to yield
FairSpecBulkTaken ==
    /\ InitBulk
    /\ [][NextBulkTaken]_vars
    /\ WF_vars(bulk_send)
    /\ WF_vars(bulk_end)
    /\ WF_vars(StreamTake)
    /\ WF_vars(StreamEnd)

(***************************************************************************)
(* Client::bulk_insert, the gRPC call and its `?`: the call is answered by *)
(* the peer, with a response or with a Status, whenever the peer chooses,  *)
(* and bulk_insert returns that answer.                                    *)
(***************************************************************************)
\* the answers of the peer
Acks == {"response", "status"}

\* mutant of BulkResult: a failed send of the task is reported to the caller
BulkResult_send_failure(ack) ==
    IF bi_pc = "returned" THEN Err(FromSendError)
    ELSE IF ack = "status" THEN Err(FromStatus)
    ELSE Ok("unit")

\* self.0.bulk_insert(..).await?; Ok(())
BulkResult(ack) == IF ack = "status" THEN Err(FromStatus) ELSE Ok("unit")

bulk_insert_return ==
    /\ bi_result = Pending
    /\ \E ack \in Acks :
         /\ bi_ack' = ack
         /\ bi_result' = BulkResult(ack)
    /\ UNCHANGED << items, bi_pc, bi_next, bi_queue, bi_rx_gone, bi_received,
                    bi_eos, txn_vars, client_vars, obs_vars >>

NextBulkCall ==
    \/ bulk_send
    \/ bulk_end
    \/ StreamTake
    \/ StreamEnd
    \/ StreamDrop
    \/ bulk_insert_return

SpecBulkCall == InitBulk /\ [][NextBulkCall]_vars

(***************************************************************************)
(* Client::transaction: every call creates a queue and a gRPC stream and   *)
(* hands both to Transaction::new.  Several Transactions opened from one   *)
(* Client are kept in `chans`; each is the sender's queue (what it         *)
(* accepted, whether its receiving half is gone), the inbound stream (how  *)
(* many responses wait, how many were read) and the counter.               *)
(***************************************************************************)
\* Transactions opened from one Client in one behaviour
MaxChannels == 2
\* requests issued on each of them
MaxChanCalls == 2
\* responses the peer sends on each of them
MaxChanInbound == 1

\* mutant of NewTransaction: the counter goes on from the Transaction opened
\* before
NewTransaction_continued ==
    [next_request_id |-> IF chans = << >> THEN U32(0)
                         ELSE chans[Len(chans)].next_request_id,
     outbound |-> << >>, rx_gone |-> FALSE, inbound |-> 0, read |-> 0]

\* Transaction::new(tx, response.into_inner())
NewTransaction ==
    [next_request_id |-> U32(0), outbound |-> << >>, rx_gone |-> FALSE,
     inbound |-> 0, read |-> 0]

InitChannels == TransactionAt(U32(0)) /\ NoBulk /\ NoChannels

\* Client::transaction: the Transaction, or the gRPC error of the `?`
transaction ==
    /\ Len(chans) < MaxChannels
    /\ \E answer \in Acks :
         chans' = IF answer = "status" THEN chans ELSE Append(chans, NewTransaction)
    /\ UNCHANGED << txn_vars, bulk_vars, obs_vars >>

\* Transaction::request on channel c: the identifier is taken, the counter
\* advanced, the request sent (MaxChanCalls keeps the counter far from
\* U32_MAX and the queue far from full)
chan_request(c, variant) ==
    /\ c \in DOMAIN chans
    /\ chans[c].next_request_id # U32(MaxChanCalls)
    /\ LET t == chans[c]
           r == mpsc_send(Len(t.outbound), t.rx_gone) IN
         /\ r # "Pending"
         /\ chans' = [chans EXCEPT ![c] =
               [t EXCEPT !.next_request_id = NextRequestId(t.next_request_id),
                         !.outbound = IF r = "Ok"
                                      THEN Append(t.outbound,
                                             TransactionRequest(t.next_request_id, variant))
                                      ELSE t.outbound]]
    /\ UNCHANGED << txn_vars, bulk_vars, obs_vars >>

\* the peer of channel c sends a response
chan_peer_send(c) ==
    /\ c \in DOMAIN chans
    /\ chans[c].inbound + chans[c].read < MaxChanInbound
    /\ chans' = [chans EXCEPT ![c].inbound = @ + 1]
    /\ UNCHANGED << txn_vars, bulk_vars, obs_vars >>

\* self.receiver.message() on channel c yields a response
chan_message(c) ==
    /\ c \in DOMAIN chans
    /\ chans[c].inbound > 0
    /\ chans' = [chans EXCEPT ![c].inbound = @ - 1, ![c].read = @ + 1]
    /\ UNCHANGED << txn_vars, bulk_vars, obs_vars >>

\* the gRPC call of channel c drops the receiving half of its queue
chan_drop(c) ==
    /\ c \in DOMAIN chans
    /\ ~chans[c].rx_gone
    /\ chans' = [chans EXCEPT ![c].rx_gone = TRUE]
    /\ UNCHANGED << txn_vars, bulk_vars, obs_vars >>

ChanRequest == \E c \in 1 .. MaxChannels : chan_request(c, SingleVariant)

ChanPeerSend == \E c \in 1 .. MaxChannels : chan_peer_send(c)

ChanMessage == \E c \in 1 .. MaxChannels : chan_message(c)

ChanDrop == \E c \in 1 .. MaxChannels : chan_drop(c)

NextChannels ==
    \/ transaction
    \/ ChanRequest
    \/ ChanPeerSend
    \/ ChanMessage
    \/ ChanDrop

SpecChannels == InitChannels /\ [][NextChannels]_vars

(***************************************************************************)
(* Properties of the Transaction channel.                                  *)
(***************************************************************************)
\* the calls the properties speak of: the one in flight, once its request
\* was sent, and the one that returned last
InFlight == pc = "recv"

HasReturned == last.request # "none"

\* the responses of a sequence of messages
Responses(got) == [i \in DOMAIN got |-> got[i].response]

\* a message that carries a payload under another identifier than `id`
Foreign(msg, id) == msg.response # None /\ msg.request_id # id

\* C1: on a freshly opened channel the k-th request placed on the outbound
\* side carries identifier k - 1: the identifiers are 0, 1, ..., N-1 in order,
\* each the previous one plus 1.
C1_SequentialIds ==
    \A k \in DOMAIN outbound : outbound[k].request_id = U32(k - 1)

C1_Witness ==
    /\ Len(outbound) = 3
    /\ \A k \in DOMAIN outbound : outbound[k].request = SingleVariant
    /\ outbound[3].request_id = U32(2)

\* C2: a response with a payload and an identifier other than the one issued
\* for the pending request ends the call, single or multi, at whatever position
\* and whatever the payload (the Empty terminator included), with
\* UnexpectedResponseId{expected = issued, actual = received}; no call goes
\* on, or returns Ok, after reading one.
C2_MismatchRejected ==
    /\ InFlight => \A i \in DOMAIN cur.got : ~Foreign(cur.got[i], cur.request_id)
    /\ HasReturned =>
         \A i \in DOMAIN last.got :
            Foreign(last.got[i], last.request_id) =>
               /\ i = Len(last.got)
               /\ last.result =
                    Err(UnexpectedResponseId(last.request_id, last.got[i].request_id))

C2_Witness ==
    /\ HasReturned
    /\ last.request = MultiVariant
    /\ Len(last.got) = 2
    /\ last.got[1].request_id = last.request_id
    /\ last.got[2] = TransactionResponse(WrappingInc(last.request_id), Empty)
    /\ last.result =
         Err(UnexpectedResponseId(last.request_id, WrappingInc(last.request_id)))

\* k values followed by the Empty terminator, all under identifier `id`
IsReply(got, id) ==
    /\ Len(got) >= 1
    /\ \A i \in DOMAIN got : got[i].request_id = id /\ got[i].response # None
    /\ \A i \in 1 .. Len(got) - 1 : got[i].response # Empty
    /\ got[Len(got)].response = Empty

\* values only, all under identifier `id`
IsPartialReply(got, id) ==
    \A i \in DOMAIN got :
        got[i].request_id = id /\ got[i].response \notin {None, Empty}

\* C3: when request_multi has read k values and then Empty, all under the
\* issued identifier, it returns exactly the k values in delivery order,
\* without the terminator, having read k+1 messages and no more: what arrived
\* later stays unread.  Before the terminator it has accumulated exactly the
\* values read so far.
C3_MultiReply ==
    /\ (InFlight /\ cur.request = MultiVariant
           /\ IsPartialReply(cur.got, cur.request_id))
         => cur.values = Responses(cur.got)
    /\ (HasReturned /\ last.request = MultiVariant
           /\ IsReply(last.got, last.request_id))
         => /\ last.result = Ok(SubSeq(Responses(last.got), 1, Len(last.got) - 1))
            /\ pc = "idle" =>
                 /\ read = last.read_before + Len(last.got)
                 /\ inbound = peer_sent - read

C3_Witness ==
    /\ HasReturned
    /\ pc = "idle"
    /\ last.request = MultiVariant
    /\ IsReply(last.got, last.request_id)
    /\ Len(last.got) = 3
    /\ last.result = Ok(<< last.got[1].response, last.got[2].response >>)
    /\ last.got[1].response # last.got[2].response
    /\ inbound = 1

\* the last poll of a call found the stream ended, or a response with no
\* payload
FoundNothing(call) ==
    \/ call.polled = "None"
    \/ call.polled = "Some" /\ call.got[Len(call.got)].response = None

\* C4: a call whose request was sent and that finds the stream ended, or a
\* response without payload, before its reply is complete returns
\* UnexpectedEmptyResponse{request_id = issued}, whatever identifier that
\* response carries and whatever was accumulated; a call never goes on after
\* it.
C4_EmptyResponse ==
    /\ InFlight => ~FoundNothing(cur)
    /\ (HasReturned /\ last.sent /\ FoundNothing(last))
         => last.result = Err(UnexpectedEmptyResponse(last.request_id))

C4_Witness ==
    /\ HasReturned
    /\ last.request = SingleVariant
    /\ last.got = << TransactionResponse(WrappingInc(last.request_id), None) >>
    /\ last.result = Err(UnexpectedEmptyResponse(last.request_id))

\* the identifiers of the calls that returned before the last one
EarlierIds == { results[j].request_id : j \in 1 .. Len(results) - 1 }

\* C5: every payload a successful call returns was carried by a response
\* under the identifier issued for that call, and a call that reads a
\* payload under the identifier of an earlier call fails with
\* UnexpectedResponseId.
C5_OwnRepliesOnly ==
    HasReturned =>
      /\ (last.result.tag = "Ok" /\ last.request = SingleVariant)
           => /\ Len(last.got) = 1
              /\ last.got[1] = TransactionResponse(last.request_id, last.result.value)
      /\ (last.result.tag = "Ok" /\ last.request = MultiVariant)
           => \A i \in DOMAIN last.result.value :
                 last.got[i] = TransactionResponse(last.request_id, last.result.value[i])
      /\ \A i \in DOMAIN last.got :
            (last.got[i].response # None /\ last.got[i].request_id \in EarlierIds)
              => last.result =
                   Err(UnexpectedResponseId(last.request_id, last.got[i].request_id))

\* the previous call returned in the middle of its reply; the last call found
\* a value of that reply already waiting and was refused it
C5_Witness ==
    /\ HasReturned
    /\ Len(results) >= 2
    /\ results[Len(results) - 1].request = MultiVariant
    /\ results[Len(results) - 1].outcome = "UnexpectedEmptyResponse"
    /\ Len(last.got) = 1
    /\ last.got[1].request_id = results[Len(results) - 1].request_id
    /\ last.got[1].response \notin {None, Empty}
    /\ last.result.tag = "Err"
    /\ last.result.error.kind = "UnexpectedResponseId"

\* C6: once a call has failed with UnexpectedResponseId, no later call on the
\* channel returns a successful result.
C6_MismatchIsFatal ==
    \A i, j \in DOMAIN results :
        (i < j /\ results[i].outcome = "UnexpectedResponseId")
          => results[j].outcome # "Ok"

\* the request of the call that returned last was placed on the outbound side
OnOutbound(id) == \E k \in DOMAIN outbound : outbound[k].request_id = id

\* C7: a call returns ChannelClosed exactly when its request was not accepted
\* by the outbound queue, which happens only once the receiving half is gone;
\* after one ChannelClosed every later call returns ChannelClosed.
C7_ChannelClosed ==
    /\ HasReturned =>
         /\ (last.result = Err(ChannelClosed)) <=> ~OnOutbound(last.request_id)
         /\ ~OnOutbound(last.request_id) => sender_rx_gone
    /\ \A i, j \in DOMAIN results :
          (i < j /\ results[i].outcome = "ChannelClosed")
            => results[j].outcome = "ChannelClosed"

C7_Witness ==
    /\ Len(results) = 3
    /\ results[1].outcome = "Ok"
    /\ results[2].outcome = "ChannelClosed"
    /\ results[3].outcome = "ChannelClosed"
    /\ last.result = Err(ChannelClosed)
    /\ Len(outbound) = 1

\* C8: no two requests issued on one channel carry the same identifier,
\* however many are issued: a request never carries an identifier below
\* first_id (all of which the channel has issued before) nor the identifier of
\* another request of the behaviour.
C8_NeverReused ==
    \A k \in DOMAIN outbound :
        /\ ~U32Less(outbound[k].request_id, first_id)
        /\ \A j \in DOMAIN outbound :
              j # k => outbound[j].request_id # outbound[k].request_id

(***************************************************************************)
(* Properties of bulk_insert.                                              *)
(***************************************************************************)
\* the protobuf messages of the first n items
Pushed(n) == [i \in 1 .. n |-> IntoProto(items[i])]

\* C9: the queue never holds more than CHANNEL_CAPACITY items; while it is
\* full the producer cannot send; what the consumer has received and what the
\* queue holds are together exactly the items sent so far, in the order
\* given, so the consumer has a prefix of the batch with no gap and no
\* duplicate.
C9_BoundedPipe ==
    /\ Len(bi_queue) <= CHANNEL_CAPACITY
    /\ (bi_pc = "loop" /\ ~bi_rx_gone /\ Len(bi_queue) = CHANNEL_CAPACITY)
         => ~ENABLED bulk_send
    /\ Len(bi_received) <= Len(items)
    /\ bi_received = Pushed(Len(bi_received))
    /\ ~bi_rx_gone => bi_received \o bi_queue = Pushed(bi_next - 1)

\* the queue is full, the producer has an item to send, the consumer is
\* alive and has taken one
C9_Witness ==
    /\ bi_pc = "loop"
    /\ ~bi_rx_gone
    /\ Len(bi_queue) = CHANNEL_CAPACITY
    /\ bi_next <= Len(items)
    /\ Len(bi_received) = 1

\* the task is over
Terminated == bi_pc \in {"returned", "finished"}

\* C10: once the receiving side of the queue is dropped the producer task
\* terminates, and from the drop on it sends nothing and, once over, stays
\* over.
C10_ProducerTerminates ==
    /\ bi_rx_gone ~> Terminated
    /\ [][bi_rx_gone => (bi_next' = bi_next /\ bi_queue' = bi_queue)]_vars
    /\ [][Terminated => (bi_pc' = bi_pc /\ bi_next' = bi_next)]_vars

\* the receiving side was dropped while the queue was full and nothing had
\* been taken: the task returned at its next send, with items left
C10_Witness ==
    /\ bi_rx_gone
    /\ bi_pc = "returned"
    /\ bi_received = << >>
    /\ bi_next = CHANNEL_CAPACITY + 1
    /\ bi_next <= Len(items)

\* C11: what bulk_insert returns is the peer's answer to the call and nothing
\* else: Ok for a response, the gRPC error for a Status, whether or not a send
\* of the producer task failed and however many items were pushed; once
\* returned, no step of the task or of the stream changes it.
C11_ResultIsPeerAnswer ==
    /\ bi_result # Pending =>
         bi_result = (IF bi_ack = "response" THEN Ok("unit") ELSE Err(Grpc))
    /\ bi_result # Err(ChannelClosed)

\* bulk_insert returned Ok although the task stopped at a failed send with
\* items left
C11_Witness ==
    /\ bi_result = Ok("unit")
    /\ bi_pc = "returned"
    /\ bi_next > 1
    /\ bi_next <= Len(items)

(***************************************************************************)
(* Properties of Client::transaction.                                      *)
(***************************************************************************)
\* C12: on every Transaction the k-th request accepted carries k - 1, so the
\* first carries 0 whatever the other Transactions of the Client have issued;
\* a Transaction begins with counter 0 and empty streams, and a step that
\* changes one Transaction (a request, a response arriving or read, its queue
\* dropped) leaves the counter and the streams of every other one as they
\* were.
C12_OwnCounterAndStreams ==
    /\ [](\A c \in DOMAIN chans :
             \A k \in DOMAIN chans[c].outbound :
                 chans[c].outbound[k].request_id = U32(k - 1))
    /\ [][Len(chans') > Len(chans) =>
             /\ chans'[Len(chans')].next_request_id = U32(0)
             /\ chans'[Len(chans')].outbound = << >>
             /\ chans'[Len(chans')].inbound = 0
             /\ \A d \in DOMAIN chans : chans'[d] = chans[d]]_vars
    /\ [][\A c, d \in DOMAIN chans :
             (c # d /\ Len(chans') = Len(chans) /\ chans'[c] # chans[c])
                => chans'[d] = chans[d]]_vars

\* the first Transaction has issued two requests and the second one's
\* first request carries 0
C12_Witness ==
    /\ Len(chans) = 2
    /\ chans[1].next_request_id = U32(2)
    /\ Len(chans[1].outbound) = 2
    /\ Len(chans[2].outbound) = 1
    /\ chans[2].outbound[1].request_id = U32(0)


\* the call whose request was issued last
LatestCall == IF pc \in {"send", "recv"} THEN cur ELSE last

\* the identifiers of the requests issued before that of `call`
IssuedBefore(call) ==
    { results[j].request_id : j \in DOMAIN results } \ {call.request_id}

\* the requests of returned calls that reached the outbound side
SentAndReturned == { j \in DOMAIN results : results[j].outcome # "ChannelClosed" }

\* `call` read its whole reply: the one response of a single-value call, the
\* values up to and including the terminator of a multi-value call
Drained(call) ==
    IF call.request = SingleVariant
    THEN /\ Len(call.got) = 1
         /\ call.got[1].request_id = call.request_id
         /\ call.got[1].response # None
    ELSE IsReply(call.got, call.request_id)

\* C13 (as stated): when a request is issued, no response the peer sent
\* under the identifier of an earlier request is still waiting unread,
\* whatever the earlier calls returned.
C13_DrainedBeforeIssue ==
    \A i \in DOMAIN LatestCall.got :
        i <= unread_at_issue
          => LatestCall.got[i].request_id \notin IssuedBefore(LatestCall)

\* C13 (amended): at most one request is awaiting its reply at a time, and a
\* call that returned Ok had read its whole reply, terminator included, by
\* then, so that the next request is issued after it.
C13_SuccessfulCallDrained ==
    /\ Len(outbound) = Cardinality(SentAndReturned) + (IF pc = "recv" THEN 1 ELSE 0)
    /\ (HasReturned /\ last.result.tag = "Ok") => Drained(last)

C13_Witness ==
    /\ pc = "send"
    /\ unread_at_issue = 0
    /\ last.request = MultiVariant
    /\ last.result.tag = "Ok"
    /\ Len(last.got) = 3
    /\ Len(outbound) = 1


\* C14: request_multi checks the identifier of every message it reads before
\* its payload: a message under another identifier than the issued one,
\* whether it holds a value, the Empty terminator or no payload, ends the
\* call with UnexpectedResponseId.
C14_IdentifierFirst ==
    /\ (InFlight /\ cur.request = MultiVariant)
         => \A i \in DOMAIN cur.got : cur.got[i].request_id = cur.request_id
    /\ (HasReturned /\ last.request = MultiVariant)
         => \A i \in DOMAIN last.got :
               last.got[i].request_id # last.request_id
                 => last.result =
                      Err(UnexpectedResponseId(last.request_id, last.got[i].request_id))


\* the calls whose send succeeded, in the order they were made: those that
\* returned anything but ChannelClosed, and the one awaiting its reply
SentCalls ==
    SelectSeq(results, LAMBDA r : r.outcome # "ChannelClosed")
      \o (IF pc = "recv" THEN << [request_id |-> cur.request_id,
                                   request |-> cur.request,
                                   outcome |-> "none"] >>
          ELSE << >>)

\* C15: every call places its request on the outbound side once if the send
\* succeeds and not at all if it fails with ChannelClosed, whatever the call
\* returns afterwards: the outbound side holds one request per call whose
\* send succeeded, in call order, and nothing else; a call that fails is
\* returned to its caller as that failure and its request is not sent again.
C15_NoRetry ==
    /\ Len(outbound) = Len(SentCalls)
    /\ \A k \in DOMAIN outbound :
          /\ outbound[k].request_id = SentCalls[k].request_id
          /\ outbound[k].request = SentCalls[k].request
    /\ \A j \in DOMAIN results :
          Cardinality({ k \in DOMAIN outbound :
                          outbound[k].request_id = results[j].request_id })
            = IF results[j].outcome = "ChannelClosed" THEN 0 ELSE 1
    /\ HasReturned => results[Len(results)].outcome =
                        (IF last.result.tag = "Ok" THEN "Ok" ELSE last.result.error.kind)

C15_Witness ==
    /\ Len(results) = 3
    /\ results[1].outcome = "UnexpectedResponseId"
    /\ results[2].outcome = "UnexpectedEmptyResponse"
    /\ results[3].outcome = "ChannelClosed"
    /\ Len(outbound) = 2


\* the messages of the first n items, in the order given
Protos(n) == [i \in 1 .. n |-> IntoProto(items[i])]

\* C16: as long as the consumer keeps taking from the queue, the task
\* eventually has pushed every item, is over and has dropped the sender, and
\* the consumer has received all the items in order and then the end of the
\* stream; what it has received is always a prefix of the items, and the end
\* of the stream is never seen before the last item.
C16_ClosedAfterLastItem ==
    /\ <>(bi_pc = "finished" /\ bi_eos /\ bi_received = Protos(Len(items)))
    /\ [](Len(bi_received) <= Len(items) /\ bi_received = Protos(Len(bi_received)))
    /\ [](bi_eos => bi_received = Protos(Len(items)))
    /\ [][bi_eos => bi_received' = bi_received]_vars

C16_Witness ==
    /\ bi_eos
    /\ bi_pc = "finished"
    /\ Len(bi_received) = CHANNEL_CAPACITY + ExtraItems
    /\ bi_received[Len(bi_received)] = IntoProto(items[Len(items)])


\* a call awaits a message of a stream that holds none and is neither ended
\* nor failed
Hung == pc = "recv" /\ inbound = 0 /\ in_state = "open"

\* C17: while the peer delivers nothing and the stream neither ends nor
\* fails, the awaiting call cannot return, with a result or with an error,
\* and no request is issued or sent: no step of the channel is possible, and
\* whatever else happens leaves the call, the results, the counter and the
\* outbound side as they are.
C17_NoTimeout ==
    /\ [](Hung => /\ ~ENABLED request_single
                  /\ ~ENABLED request_multi
                  /\ ~ENABLED Call
                  /\ ~ENABLED send)
    /\ [][(Hung /\ Hung')
            => UNCHANGED << pc, cur, last, results, outbound, next_request_id >>]_vars

\* a multi-value call that has read one value and waits for more, its request
\* taken by the transport meanwhile
C17_Witness ==
    /\ Hung
    /\ cur.request = MultiVariant
    /\ Len(cur.got) = 1
    /\ taken = Len(outbound)


\* C18: a domain operation returns Conversion only after its call returned
\* Ok, that is with the whole reply read (the terminator of a multi-value
\* reply included) and nothing else: the conversion leaves the channel as the
\* call left it, and the next call starts reading right behind that reply.
C18_ConversionKeepsInStep ==
    /\ \A k \in DOMAIN domain_results :
          domain_results[k] = "Conversion" => results[k].outcome = "Ok"
    /\ Len(domain_results) = Len(results)
    /\ domain_result = Err(Conversion) =>
          /\ last.result.tag = "Ok"
          /\ Drained(last)
          /\ pc = "idle" => read = last.read_before + Len(last.got)
          /\ pc \in {"send", "recv"} =>
                cur.read_before = last.read_before + Len(last.got)

\* get_vertices failed with Conversion on a complete reply of two values, and
\* the create_vertex after it was answered under its own identifier and
\* returned Ok
C18_Witness ==
    /\ Len(results) = 2
    /\ domain_results = << "Conversion", "Ok" >>
    /\ results[1].request = MultiVariant
    /\ last.request = SingleVariant
    /\ last.read_before = 3
    /\ domain_result = Ok(<< "domain", Value(4) >>)
    /\ last.got = << TransactionResponse(last.request_id, Value(4)) >>


\* C19: a request_single whose request was sent polls the stream once and
\* reads one message, or none when the stream is over, whatever it returns,
\* and returns an Empty payload under its identifier as its result; a call
\* whose send failed with ChannelClosed, single or multi, polls nothing and
\* reads nothing.
C19_SingleReadsOne ==
    /\ (InFlight /\ cur.request = SingleVariant)
         => cur.got = << >> /\ cur.polled = "none" /\ read = cur.read_before
    /\ (HasReturned /\ last.request = SingleVariant /\ last.sent)
         => /\ last.polled \in {"Some", "None", "Status"}
            /\ Len(last.got) = (IF last.polled = "Some" THEN 1 ELSE 0)
            /\ pc = "idle" => read = last.read_before + Len(last.got)
            /\ last.result.tag = "Ok" => last.polled = "Some"
            /\ last.result.tag = "Err"
                 => last.result.error.kind \in
                      IF last.polled = "Some"
                      THEN {"UnexpectedResponseId", "UnexpectedEmptyResponse"}
                      ELSE IF last.polled = "None" THEN {"UnexpectedEmptyResponse"}
                      ELSE {"Grpc"}
            /\ last.got = << TransactionResponse(last.request_id, Empty) >>
                 => last.result = Ok(Empty)
    /\ (HasReturned /\ ~last.sent)
         => /\ last.result = Err(ChannelClosed)
            /\ last.got = << >>
            /\ last.polled = "none"
            /\ pc = "idle" => read = last.read_before

\* request_single returned the Empty payload sent under its identifier and
\* left the response behind it unread
C19_Witness ==
    /\ pc = "idle"
    /\ last.request = SingleVariant
    /\ last.got = << TransactionResponse(last.request_id, Empty) >>
    /\ last.result = Ok(Empty)
    /\ read = last.read_before + 1
    /\ inbound = 1


\* the calls of request() made in this behaviour
Invoked == Len(results) + (IF pc \in {"send", "recv", "panicked"} THEN 1 ELSE 0)

RECURSIVE AddWrapping(_, _)
\* x + n modulo 2^32
AddWrapping(x, n) == IF n = 0 THEN x ELSE AddWrapping(WrappingInc(x), n - 1)

\* C20: the counter is the number of calls of request() made on the channel,
\* modulo 2^32, whether their sends or the calls failed or not: it is one
\* past the identifier of the call in flight, each call carries the
\* identifier after that of the call before it, and the requests on the
\* outbound side are never more than the counter.
C20_CounterCountsAttempts ==
    /\ next_request_id = AddWrapping(first_id, Invoked)
    /\ pc \in {"send", "recv"} => next_request_id = WrappingInc(cur.request_id)
    /\ \A j \in 1 .. Len(results) - 1 :
          results[j + 1].request_id = WrappingInc(results[j].request_id)
    /\ ~U32Less(next_request_id, U32(Len(outbound)))

=============================================================================
